---- MODULE Spec2Model ----
(***************************************************************************)
(* Model of app.py: the webhook front door (handle_build_request), the     *)
(* build flow (process_request), the revise flow                           *)
(* (process_revision_request) and the helpers they call.  Every remote     *)
(* call (generation backend, repository backend, evaluation server) is one *)
(* atomic step of the calling task; the remote side answers according to   *)
(* its own state or with a failure.                                        *)
(***************************************************************************)
EXTENDS Integers, Sequences, FiniteSets, TLC

\* ------------------------------------------------------------------ bounds
\* Number of inbound requests the server receives in a run of the model.
NumRequests == 2
\* Longest attachments list of a request.
MaxAtt == 1

\* The execution contexts of the host process: each serves one inbound
\* request at a time, and the two run concurrently.
Workers == {"w1", "w2"}
\* The contexts are interchangeable: a request goes to the first free one.
Before(t) == IF t = "w2" THEN {"w1"} ELSE {}
\* Repository names requests may carry in their "task" field.
Names == {"demo-1"}
\* The names of the runs that look at tasks for different repositories.
AllNames == {"demo-1", "demo-2"}

\* The inputs the environment sends (the value of env):
\*   "valid": requests that carry every required field, attachments that
\*            carry a name, generation responses that carry text;
\*   "any":   every request, attachment and response the code can meet;
\*   "names": valid inputs for two repository names, with at most one task
\*            in flight per name (the caller-side discipline).
Envs == {"valid", "any", "names"}
TaskNames(e) == IF e = "names" THEN AllNames ELSE Names

\* --------------------------------------------------------- configuration
GITHUB_USERNAME == "user"
\* The account the GITHUB_TOKEN authenticates as (the code uses
\* GITHUB_USERNAME as the owner of every repository it addresses).
AccountLogin == "user"

\* HTTP status codes the code branches on.
OK == 200
CREATED == 201
UNPROCESSABLE == 422
\* A status of 0 stands for "no response": requests raised an exception
\* (a transport failure).
NoResponse == 0
\* No response within the timeout of the notification POST.
TimedOut == 15
\* Statuses the remote side answers with when it fails for its own reasons.
SERVER_ERROR == 500
NOT_FOUND == 404
CONFLICT == 409

\* Absent version token: data.get("sha") is None or falsy.
NoSha == 0

VARIABLES
  req,        \* req[t]: the inbound request context t is serving
  pc,         \* pc[t]: the statement context t executes next
  resp,       \* resp[t]: the status the front door answered (0: not yet)
  loc,        \* loc[t]: the local variables of the flow running in t
  log,        \* log[t]: the calls the task in t has issued, in order
  repos,      \* repos[n]: the remote repository named n
  seq,        \* seq[n]: number of commits the backend has made in repository n
  served,     \* number of requests received so far
  env         \* the inputs the environment sends (never changes)

vars == <<req, pc, resp, loc, log, repos, seq, served, env>>

\* ------------------------------------------------------------ remote side
Paths == {"index.html", "README.md", "LICENSE"}

\* Text is modelled by who produced it and from which version:
\* by = the task whose generation call returned it (0: nobody), base = the
\* blob the text was revised from (NoSha: generated from scratch),
\* empty = the text is the empty string.
NoContent == [by |-> 0, base |-> NoSha, empty |-> FALSE]
NoFile == [sha |-> NoSha, content |-> NoContent]
NoRepo == [exists |-> FALSE, html_url |-> <<>>,
           files |-> [p \in Paths |-> NoFile],
           pages |-> FALSE, pages_url |-> <<>>]

\* html_url of a repository the backend created for the authenticated account.
BackendRepoUrl(n) == <<"https://github.com", AccountLogin, n>>
\* html_url of the hosting record of a repository.
BackendPagesUrl(n) == <<"https://github.io", AccountLogin, n>>

\* Blob and commit identifiers the backend hands out for its k-th commit.
BlobSha(k) == k
CommitSha(k) == 100 + k

\* POST /user/repos
RepoCreateStatuses(n) ==
  {IF repos[n].exists THEN UNPROCESSABLE ELSE CREATED, SERVER_ERROR, NoResponse}

\* PUT /repos/<owner>/<n>/contents/<p> with optional sha
PutNormalStatus(n, p, sha) ==
  IF ~repos[n].exists THEN NOT_FOUND
  ELSE IF repos[n].files[p].sha = NoSha
       THEN (IF sha = NoSha THEN CREATED ELSE UNPROCESSABLE)
       ELSE (IF sha = NoSha THEN UNPROCESSABLE
             ELSE IF sha = repos[n].files[p].sha THEN OK ELSE CONFLICT)
PutStatuses(n, p, sha) == {PutNormalStatus(n, p, sha), SERVER_ERROR, NoResponse}

\* GET /repos/<owner>/<n>/contents/<p>
GetFileStatuses(n, p) ==
  {IF repos[n].exists /\ repos[n].files[p].sha # NoSha THEN OK ELSE NOT_FOUND,
   SERVER_ERROR, NoResponse}

\* POST /repos/<owner>/<n>/pages
PagesPostStatuses(n) ==
  {IF ~repos[n].exists THEN NOT_FOUND
   ELSE IF repos[n].pages THEN CONFLICT ELSE CREATED,
   SERVER_ERROR, NoResponse}

\* GET /repos/<owner>/<n>/pages
PagesGetStatuses(n) ==
  {IF repos[n].exists /\ repos[n].pages THEN OK ELSE NOT_FOUND,
   SERVER_ERROR, NoResponse}

\* POST to the evaluation_url: the evaluator answers 200 or another status,
\* the transport fails, or the attempt times out.
NotifyStatuses == {OK, SERVER_ERROR, NoResponse, TimedOut}

\* model.generate_content: an exception, or a response whose text holds a
\* fenced html block with a body ("fenced"), a fenced html block whose body
\* is empty or blank ("fenced_blank"), text without such a block
\* ("unfenced"), or no text at all ("empty").
GenOutcomes(e) ==
  IF e = "any" THEN {"fenced", "fenced_blank", "unfenced", "empty", "raise"}
  ELSE {"fenced", "unfenced", "raise"}

\* ---------------------------------------------------------------- requests
\* An attachment: {name, url} with a url "data:<media_type>;base64,<data>"
\* whose data decodes to text ("good"), a url without a comma ("no_comma"),
\* data that is not base64 ("bad_base64"), data that is not UTF-8 text
\* ("not_text"), no url key ("no_url"), or no name key ("no_name").
AllAttKinds == {"good", "no_comma", "bad_base64", "not_text", "no_url", "no_name"}
\* Valid inputs: a well-formed and a malformed attachment.
AttKinds(e) == IF e = "any" THEN AllAttKinds ELSE {"good", "no_comma"}
\* data.get("attachments"): absent, or a list.
NoAttachments == [given |-> FALSE, items |-> <<>>]
AttLists(e) ==
  {NoAttachments} \cup
  {[given |-> TRUE, items |-> l] : l \in UNION {[1..k -> AttKinds(e)] : k \in 0..MaxAtt}}

\* What the front door finds: no JSON body, no "secret" key, a secret other
\* than MY_APP_SECRET, or the secret.
FrontKinds == {"ok", "invalid_json", "no_secret", "bad_secret"}
\* data.get("round") of a request without a round.
NoRound == 0
Rounds == {NoRound, 1, 2}
\* The required field a request lacks.
RequiredFields == {"task", "brief", "email", "nonce", "evaluation_url"}
MissingFields(e) == IF e = "any" THEN {"none"} \cup RequiredFields ELSE {"none"}

\* id: the nonce, which identifies the task instance; the email and the
\* evaluation_url are the request's own.
Requests(id, e) ==
  [id : {id}, front : FrontKinds, round : Rounds, task : TaskNames(e),
   missing : MissingFields(e),
   email : {<<"email", id>>}, evaluation_url : {<<"evaluation_url", id>>}]
NoRequest == [id |-> 0, front |-> "ok", round |-> 1, task |-> "",
              missing |-> "none", email |-> <<>>, evaluation_url |-> <<>>]

\* ------------------------------------------------------------------- events
\* op: the call; path: the file it is about; sha: the version token sent;
\* res: the status answered; ret: the identifier the answer carried (the
\* sha of a file, the sha of a commit, the html_url of a hosting record).
Ev(op, path, sha, res, ret) ==
  [op |-> op, path |-> path, sha |-> sha, res |-> res, ret |-> ret]

Logged(t, e) == log' = [log EXCEPT ![t] = Append(@, e)]

\* ------------------------------------------------------------- local state
NoLoc == [attachments |-> NoAttachments, attachments_content |-> <<>>,
          html |-> NoContent, readme |-> NoContent, license |-> NoContent,
          original_html |-> NoFile, original_readme |-> NoFile,
          repo_url |-> <<>>, i |-> 0,
          latest_commit_sha |-> NoSha, commit_sha |-> NoSha,
          pages_url |-> <<>>,
          n |-> 0, slept |-> 0, last_status |-> 0, body |-> <<>>]

Init ==
  /\ req = [t \in Workers |-> NoRequest]
  /\ pc = [t \in Workers |-> "idle"]
  /\ resp = [t \in Workers |-> 0]
  /\ loc = [t \in Workers |-> NoLoc]
  /\ log = [t \in Workers |-> <<>>]
  /\ repos = [n \in Names |-> NoRepo]
  /\ seq = [n \in Names |-> 0]
  /\ served = 0
  /\ env = "valid"

\* An exception leaves the flow: the front door's except clause is next.
Raise(t) == pc' = [pc EXCEPT ![t] = "raised"]
Goto(t, l) == pc' = [pc EXCEPT ![t] = l]

\* process_request with hosting enabled before the files are published.
BuildStepsHostingFirst ==
  <<"process_attachments", "generate_code", "generate_readme",
    "create_github_repo", "pages_post", "push", "sleep30", "notify_post",
    "returned">>

\* The statements of process_request, in program order; after the last one
\* the function returns.
BuildSteps ==
  <<"process_attachments", "generate_code", "generate_readme",
    "create_github_repo", "push", "pages_post", "sleep30", "notify_post",
    "returned">>

\* The statements of process_revision_request, in program order.
ReviseSteps ==
  <<"process_attachments", "get_index", "get_readme", "revise_code",
    "revise_readme", "push", "pages_post", "sleep30", "notify_post",
    "returned">>

\* `if data.get("round") == 2` of the front door.
Flow(t) == IF req[t].round = 2 THEN ReviseSteps ELSE BuildSteps

\* The literal "round" of the notification payload of the flow a request
\* with round r is dispatched to.
FlowRound(r) == IF r = 2 THEN 2 ELSE 1

\* A repository name written into the code.
FixedRepoName(t) == "demo-1"

\* repo_name = data["task"]
RepoName(t) == req[t].task

\* The statement that follows statement l in the flow of t.
After(t, l) ==
  LET k == CHOOSE j \in 1..Len(Flow(t)) : Flow(t)[j] = l
  IN Flow(t)[k + 1]

\* Statement l of the flow of t completed.
Done(t, l) == Goto(t, After(t, l))

\* ---------------------------------------------------------------- front door
\* A request arrives and is given to a free execution context.  Under the
\* caller-side discipline no task for its repository name is in flight.
receive(t) ==
  /\ pc[t] = "idle"
  /\ \A u \in Before(t) : pc[u] # "idle"
  /\ served < NumRequests
  /\ served' = served + 1
  /\ \E r \in Requests(served + 1, env) :
       /\ env = "names" =>
            /\ \A u \in Workers \ {t} : pc[u] # "idle" => req[u].task # r.task
            /\ r.front = "ok"
       /\ req' = [req EXCEPT ![t] = r]
  /\ Goto(t, "received")
  /\ UNCHANGED <<resp, loc, log, repos, seq, env>>

\* handle_build_request, up to the first statement of the flow the round
\* dispatches to.  data.get("round") is read here and nowhere else: from
\* here on req[t].round is the round of the flow that runs.  The
\* attachments the request carries are read by the flow's next statement.
handle_build_request(t) ==
  /\ pc[t] = "received"
  /\ IF req[t].front = "invalid_json"
     THEN /\ resp' = [resp EXCEPT ![t] = 400]
          /\ Goto(t, "done")
          /\ UNCHANGED <<req, loc>>
     ELSE IF req[t].front \in {"no_secret", "bad_secret"}
     THEN /\ resp' = [resp EXCEPT ![t] = 401]
          /\ Goto(t, "done")
          /\ UNCHANGED <<req, loc>>
     ELSE /\ req' = [req EXCEPT ![t].round = FlowRound(@)]
          /\ UNCHANGED resp
          /\ IF req[t].missing = "task"
             THEN \* repo_name = data["task"] raises KeyError
                  /\ Raise(t)
                  /\ UNCHANGED loc
             ELSE /\ Goto(t, Flow(t)[1])
                  /\ \E a \in AttLists(env) :
                       loc' = [loc EXCEPT ![t].attachments = a]
  /\ UNCHANGED <<log, repos, seq, served, env>>

\* ------------------------------------------------------ process_attachments
\* The try block raises: attachment['url'] (KeyError), the unpacking of
\* split(',', 1) (ValueError), b64decode, decode('utf-8'), or
\* attachment['name'] in the block it appends (KeyError).
TryRaises(a) == a # "good"

\* The except block raises: attachment['name'] in the marker it appends.
HandlerRaises(a) == a = "no_name"

\* The block of the k-th attachment, which is named k: the decoded text
\* between its markers, or the DECODING FAILED marker.
AttachmentBlock(a, k) ==
  IF ~TryRaises(a) THEN [name |-> k, block |-> "decoded"]
  ELSE [name |-> k, block |-> "failed"]

\* content_list after the loop.
DecodeAttachments(atts) == [k \in 1..Len(atts) |-> AttachmentBlock(atts[k], k)]

\* "\n\n".join(content_list): a blank line between consecutive blocks.
BlankLine == [name |-> 0, block |-> "blank_line"]
JoinBlocks(l) ==
  IF l = <<>> THEN <<>>
  ELSE [i \in 1..(2 * Len(l) - 1) |-> IF i % 2 = 1 THEN l[(i + 1) \div 2] ELSE BlankLine]

\* The call raises: the except block of some attachment did.
ProcessAttachmentsRaises(a) ==
  a.given /\ \E k \in 1..Len(a.items) :
                TryRaises(a.items[k]) /\ HandlerRaises(a.items[k])

\* The text the call returns: "" (no block) for `not attachments`.
ProcessAttachments(a) ==
  IF ~a.given \/ a.items = <<>> THEN <<>>
  ELSE JoinBlocks(DecodeAttachments(a.items))

\* attachments_content = process_attachments(data.get("attachments")).  A
\* call that raises is logged with no answer.
process_attachments(t) ==
  /\ pc[t] = "process_attachments"
  /\ IF ProcessAttachmentsRaises(loc[t].attachments)
     THEN /\ Logged(t, Ev("decode", "", NoSha, NoResponse, NoSha))
          /\ loc' = [loc EXCEPT ![t].attachments = NoAttachments]
          /\ Raise(t)
     ELSE /\ Logged(t, Ev("decode", "", NoSha, OK, NoSha))
          /\ loc' = [loc EXCEPT ![t].attachments_content =
                                  ProcessAttachments(loc[t].attachments),
                                ![t].attachments = NoAttachments]
          /\ Done(t, "process_attachments")
  /\ UNCHANGED <<req, resp, repos, seq, served, env>>

\* ------------------------------------------------------------- generation
\* response.text is the empty string.
ResponseTextEmpty(o) == o = "empty"

\* re.search(r'```html(.*)```', response.text, re.DOTALL) finds a block.
HasFence(o) == o \in {"fenced", "fenced_blank"}

\* The markup functions return the empty string: .group(1).strip() of a
\* blank block, or the raw response.text when there is no block.
MarkupEmpty(o) == IF HasFence(o) THEN o = "fenced_blank" ELSE ResponseTextEmpty(o)

\* The docs functions return response.text.
DocsEmpty(o) == ResponseTextEmpty(o)

\* data["brief"], evaluated for the call, raises KeyError.
NoBrief(t) == req[t].missing = "brief"

\* generate_code_with_gemini / revise_code_with_gemini: the markup, produced
\* for the task from the blob `base`.  The prompt is the last use of
\* attachments_content, which the model drops with it.
generate_code(t) ==
  /\ pc[t] = "generate_code"
  /\ IF NoBrief(t)
     THEN Raise(t) /\ UNCHANGED <<loc, log>>
     ELSE
     \E o \in GenOutcomes(env) :
       /\ Logged(t, Ev("gen_markup", "index.html", NoSha, IF o # "raise" THEN OK ELSE NoResponse, NoSha))
       /\ IF o # "raise"
          THEN /\ loc' = [loc EXCEPT ![t].html = [by |-> req[t].id, base |-> NoSha,
                                                  empty |-> MarkupEmpty(o)],
                                     ![t].attachments_content = <<>>]
               /\ Done(t, "generate_code")
          ELSE /\ Raise(t)
               /\ UNCHANGED loc
  /\ UNCHANGED <<req, resp, repos, seq, served, env>>

\* generate_readme_with_gemini, then get_mit_license.
generate_readme(t) ==
  /\ pc[t] = "generate_readme"
  /\ \E o \in GenOutcomes(env) :
       /\ Logged(t, Ev("gen_docs", "README.md", NoSha, IF o # "raise" THEN OK ELSE NoResponse, NoSha))
       /\ IF o # "raise"
          THEN /\ loc' = [loc EXCEPT ![t].readme = [by |-> req[t].id, base |-> NoSha,
                                                    empty |-> DocsEmpty(o)],
                                     ![t].license = [by |-> req[t].id, base |-> NoSha,
                                                     empty |-> FALSE]]
               /\ Done(t, "generate_readme")
          ELSE /\ Raise(t)
               /\ UNCHANGED loc
  /\ UNCHANGED <<req, resp, repos, seq, served, env>>

\* The version a revision is not made from: the original is left out of
\* the prompt.
RevisedFromNothing(f) == NoSha

\* The version a revision is made from: the content of the fetched file f
\* goes into the prompt.
RevisedFrom(f) == f.sha

revise_code(t) ==
  /\ pc[t] = "revise_code"
  /\ IF NoBrief(t)
     THEN Raise(t) /\ UNCHANGED <<loc, log>>
     ELSE
     \E o \in GenOutcomes(env) :
       /\ Logged(t, Ev("gen_markup", "index.html", NoSha, IF o # "raise" THEN OK ELSE NoResponse, NoSha))
       /\ IF o # "raise"
          THEN /\ loc' = [loc EXCEPT ![t].html =
                            [by |-> req[t].id, base |-> RevisedFrom(loc[t].original_html),
                             empty |-> MarkupEmpty(o)],
                                     ![t].attachments_content = <<>>]
               /\ Done(t, "revise_code")
          ELSE /\ Raise(t)
               /\ UNCHANGED loc
  /\ UNCHANGED <<req, resp, repos, seq, served, env>>

\* A files dict that lacks the license.
BuildFilesNoLicense(l) ==
  << [path |-> "index.html", content |-> l.html, sha |-> NoSha],
     [path |-> "README.md", content |-> l.readme, sha |-> NoSha] >>

\* The files dict of process_request, in insertion order.
BuildFiles(l) ==
  << [path |-> "index.html", content |-> l.html, sha |-> NoSha],
     [path |-> "README.md", content |-> l.readme, sha |-> NoSha],
     [path |-> "LICENSE", content |-> l.license, sha |-> NoSha] >>

\* A files dict whose entries carry each other's token.
ReviseFilesSwapped(l) ==
  << [path |-> "index.html", content |-> l.html, sha |-> l.original_readme.sha],
     [path |-> "README.md", content |-> l.readme, sha |-> l.original_html.sha] >>

\* A files dict whose README.md entry carries no token.
ReviseFilesReadmeBlind(l) ==
  << [path |-> "index.html", content |-> l.html, sha |-> l.original_html.sha],
     [path |-> "README.md", content |-> l.readme, sha |-> NoSha] >>

\* The files dict of process_revision_request, in insertion order.
ReviseFiles(l) ==
  << [path |-> "index.html", content |-> l.html, sha |-> l.original_html.sha],
     [path |-> "README.md", content |-> l.readme, sha |-> l.original_readme.sha] >>

\* revise_readme_with_gemini.
revise_readme(t) ==
  /\ pc[t] = "revise_readme"
  /\ \E o \in GenOutcomes(env) :
       /\ Logged(t, Ev("gen_docs", "README.md", NoSha, IF o # "raise" THEN OK ELSE NoResponse, NoSha))
       /\ IF o # "raise"
          THEN /\ loc' = [loc EXCEPT ![t].readme =
                            [by |-> req[t].id, base |-> RevisedFrom(loc[t].original_readme),
                             empty |-> DocsEmpty(o)]]
               /\ Done(t, "revise_readme")
          ELSE /\ Raise(t)
               /\ UNCHANGED loc
  /\ UNCHANGED <<req, resp, repos, seq, served, env>>

\* ------------------------------------------------------ create_github_repo
\* A synthesized URL that leaves the owner out.
SynthRepoUrlNoOwner(n) == <<"https://github.com", n>>

\* The URL the 422 branch synthesizes.
SynthRepoUrl(n) == <<"https://github.com", GITHUB_USERNAME, n>>

create_github_repo(t) ==
  /\ pc[t] = "create_github_repo"
  /\ LET n == RepoName(t) IN
     \E s \in RepoCreateStatuses(n) :
       /\ Logged(t, Ev("create_repo", "", NoSha, s, NoSha))
       /\ IF s = CREATED
          THEN /\ repos' = [repos EXCEPT ![n].exists = TRUE,
                                         ![n].html_url = BackendRepoUrl(n)]
               /\ loc' = [loc EXCEPT ![t].repo_url = BackendRepoUrl(n)]
               /\ Done(t, "create_github_repo")
          ELSE IF s = UNPROCESSABLE
          THEN /\ loc' = [loc EXCEPT ![t].repo_url = SynthRepoUrl(n)]
               /\ Done(t, "create_github_repo")
               /\ UNCHANGED repos
          ELSE /\ Raise(t)
               /\ UNCHANGED <<loc, repos>>
  /\ UNCHANGED <<req, resp, seq, served, env>>

\* ------------------------------------------------------- get_file_from_repo
\* A fetch that returns nothing when the status is not 200.
FetchFailureGoesOn(t) == Done(t, pc[t])

\* `else: raise Exception(f"Failed to fetch ...")`
FetchFailure(t) == Raise(t)

get_file_from_repo(t, label, path, field) ==
  /\ pc[t] = label
  /\ LET n == RepoName(t) IN
     \E s \in GetFileStatuses(n, path) :
       IF s = OK
       THEN /\ Logged(t, Ev("fetch", path, NoSha, s, repos[n].files[path].sha))
            /\ loc' = [loc EXCEPT ![t][field] = repos[n].files[path]]
            /\ Done(t, label)
       ELSE /\ Logged(t, Ev("fetch", path, NoSha, s, NoSha))
            /\ FetchFailure(t)
            /\ UNCHANGED loc
  /\ UNCHANGED <<req, resp, repos, seq, served, env>>

get_index(t) ==
  get_file_from_repo(t, "get_index", "index.html", "original_html")

get_readme(t) ==
  get_file_from_repo(t, "get_readme", "README.md", "original_readme")

\* ------------------------------------------- create_or_update_files_in_repo
\* The sha the payload carries: `if data.get("sha"): payload["sha"] = ...`.
PayloadSha(f) == IF f.sha # NoSha THEN f.sha ELSE NoSha

\* files_with_content, as the caller of the flow of t built it.
FilesToPush(t) ==
  IF req[t].round = 2 THEN ReviseFiles(loc[t]) ELSE BuildFiles(loc[t])

\* A latest_commit_sha that keeps the first commit of the batch.
FirstCommitSha(prev, returned) == IF prev = NoSha THEN returned ELSE prev

\* latest_commit_sha after a write that answered with commit `returned`.
LatestCommitSha(prev, returned) == returned

\* A loop that tries the failed write again.
PushRetry(t) == UNCHANGED pc

\* A failed write that is only printed: the flow goes on to the wait and
\* the notification.
PushFailureNotifies(t) == Goto(t, "sleep30")

\* A failed write that is only printed: the function returns and the flow
\* goes on after the batch.
PushFailureGoesOn(t) == Done(t, "push")

\* A write answered with a status outside [200, 201], or not at all.
PushFailure(t) == Raise(t)

\* One iteration of the loop: the PUT of the file after the loc.i files
\* already written; after the last file the function returns
\* latest_commit_sha.  The first iteration is the call of the function.
push(t) ==
  /\ pc[t] = "push"
  /\ LET n == RepoName(t)
         files == FilesToPush(t)
         f == files[loc[t].i + 1]
         sha == PayloadSha(f)
         called == IF loc[t].i = 0
                   THEN <<Ev("publish_batch", "", NoSha, Len(files), NoSha)>>
                   ELSE <<>>
     IN
     \E s \in PutStatuses(n, f.path, sha) :
       IF s \in {OK, CREATED}
       THEN LET latest == LatestCommitSha(loc[t].latest_commit_sha,
                                          CommitSha(seq[n] + 1))
            IN
            /\ log' = [log EXCEPT ![t] =
                         @ \o called \o <<Ev("put", f.path, sha, s, CommitSha(seq[n] + 1))>>]
            /\ seq' = [seq EXCEPT ![n] = @ + 1]
            /\ repos' = [repos EXCEPT ![n].files[f.path] =
                           [sha |-> BlobSha(seq[n] + 1), content |-> f.content]]
            /\ IF loc[t].i + 1 = Len(files)
               THEN /\ loc' = [loc EXCEPT ![t].latest_commit_sha = latest,
                                          ![t].i = @ + 1,
                                          ![t].commit_sha = latest]
                    /\ Done(t, "push")
               ELSE /\ loc' = [loc EXCEPT ![t].latest_commit_sha = latest,
                                          ![t].i = @ + 1]
                    /\ UNCHANGED pc
       ELSE /\ log' = [log EXCEPT ![t] =
                         @ \o called \o <<Ev("put", f.path, sha, s, NoSha)>>]
            /\ PushFailure(t)
            /\ UNCHANGED <<loc, repos, seq>>
  /\ UNCHANGED <<req, resp, served, env>>

\* ----------------------------------------------------- enable_github_pages
pages_post(t) ==
  /\ pc[t] = "pages_post"
  /\ LET n == RepoName(t) IN
     \E s \in PagesPostStatuses(n) :
       /\ Logged(t, Ev("pages_post", "", NoSha, s,
                       IF s = CREATED THEN BackendPagesUrl(n) ELSE NoSha))
       /\ IF s = NoResponse
          THEN /\ Raise(t)
               /\ UNCHANGED <<loc, repos>>
          ELSE IF s = CREATED
          THEN /\ repos' = [repos EXCEPT ![n].pages = TRUE,
                                         ![n].pages_url = BackendPagesUrl(n)]
               /\ loc' = [loc EXCEPT ![t].pages_url = BackendPagesUrl(n)]
               /\ Done(t, "pages_post")
          ELSE /\ Goto(t, "pages_get")
               /\ UNCHANGED <<loc, repos>>
  /\ UNCHANGED <<req, resp, seq, served, env>>

\* The repository's URL in place of the hosting record's.
RepoUrlForPages(n) == repos[n].html_url

\* html_url of the hosting record the GET answers with.
ExistingPagesUrl(n) == repos[n].pages_url

pages_get(t) ==
  /\ pc[t] = "pages_get"
  /\ LET n == RepoName(t) IN
     \E s \in PagesGetStatuses(n) :
       /\ Logged(t, Ev("pages_get", "", NoSha, s,
                       IF s = OK THEN ExistingPagesUrl(n) ELSE NoSha))
       /\ IF s = OK
          THEN /\ loc' = [loc EXCEPT ![t].pages_url = ExistingPagesUrl(n)]
               /\ Done(t, "pages_post")
          ELSE /\ Raise(t)
               /\ UNCHANGED loc
  /\ UNCHANGED <<req, resp, repos, seq, served, env>>

\* ------------------------------------------------ wait, notification payload
\* The repo_url of the payload: repo_info["html_url"] in round 1, the
\* formatted URL in round 2.
PayloadRepoUrl(t) ==
  IF req[t].round = 2 THEN SynthRepoUrl(req[t].task) ELSE loc[t].repo_url

\* The "round" of the payload: the literal 1 of process_request, the
\* literal 2 of process_revision_request.
PayloadRound(t) == IF Flow(t) = ReviseSteps THEN 2 ELSE 1

\* The notification_payload dict.
NotificationPayload(t) ==
  [email |-> req[t].email, task |-> req[t].task, round |-> PayloadRound(t),
   nonce |-> req[t].id, repo_url |-> PayloadRepoUrl(t),
   commit_sha |-> loc[t].commit_sha, pages_url |-> loc[t].pages_url,
   evaluation_url |-> req[t].evaluation_url]

\* The dict literal raises KeyError: data["email"], data["nonce"] or
\* data["evaluation_url"] is missing.
PayloadRaises(t) == req[t].missing \in {"email", "nonce", "evaluation_url"}

\* A payload read with payload.get("evaluation_url"): the key stays.
KeptPayload(p) == p

\* The payload after url = payload.pop("evaluation_url").
PoppedPayload(p) == [k \in DOMAIN p \ {"evaluation_url"} |-> p[k]]

\* time.sleep(30), the notification_payload dict, and the pop of
\* evaluation_url that opens notify_evaluation_api.
sleep30(t) ==
  /\ pc[t] = "sleep30"
  /\ Logged(t, Ev("wait", "", NoSha, 30, NoSha))
  /\ IF PayloadRaises(t)
     THEN /\ Raise(t)
          /\ UNCHANGED loc
     ELSE /\ loc' = [loc EXCEPT ![t].body = PoppedPayload(NotificationPayload(t)),
                                ![t].n = 0, ![t].slept = 0]
          /\ Done(t, "sleep30")
  /\ UNCHANGED <<req, resp, repos, seq, served, env>>

\* ---------------------------------------------------- notify_evaluation_api
Delays == <<1, 2, 4, 8>>
\* `if i < 3: time.sleep(delay)`
SleepBelow == 3

\* After iteration n (0-based) and its sleep, if any: the next iteration, or
\* the raise that follows the loop.
AfterIteration(t, n) ==
  IF n + 1 < Len(Delays) THEN Goto(t, "notify_post") ELSE Raise(t)

\* A loop that sleeps after every failed attempt, the last one included.
SleepsAfterEvery(n) == n < Len(Delays)

\* Whether iteration n sleeps after a failed attempt.
SleepsAfter(n) == n < SleepBelow

\* The POST of iteration n: requests.post(url, json=payload).
Posted(n, payload) == Ev("notify_post", "", NoSha, n, NoSha) @@ [body |-> payload]

\* Iteration n of the loop, up to the sleep: the POST and what it answers.
notify_post(t) ==
  /\ pc[t] = "notify_post"
  /\ \E s \in NotifyStatuses :
       /\ Logged(t, Posted(loc[t].n, loc[t].body))
       /\ IF s = OK
          THEN /\ Done(t, "notify_post")
               /\ loc' = [loc EXCEPT ![t].last_status = s]
          ELSE IF SleepsAfter(loc[t].n)
          THEN /\ Goto(t, "notify_sleep")
               /\ loc' = [loc EXCEPT ![t].last_status = s]
          ELSE /\ AfterIteration(t, loc[t].n)
               /\ loc' = [loc EXCEPT ![t].last_status = s, ![t].n = @ + 1]
  /\ UNCHANGED <<req, resp, repos, seq, served, env>>

\* time.sleep(delay), which ends iteration n.
notify_sleep(t) ==
  /\ pc[t] = "notify_sleep"
  /\ Logged(t, Ev("sleep", "", NoSha, Delays[loc[t].n + 1], NoSha))
  /\ loc' = [loc EXCEPT ![t].slept = @ + Delays[loc[t].n + 1],
                        ![t].n = @ + 1]
  /\ AfterIteration(t, loc[t].n)
  /\ UNCHANGED <<req, resp, repos, seq, served, env>>

\* ------------------------------------------------- front door: the answer
\* A front door that answers 200 whatever the flow did.
AlwaysOkStatus(p) == 200

\* The status of the answer: 200 after the flow returned, 500 from the
\* except clause.
FrontDoorStatus(p) == IF p = "returned" THEN 200 ELSE 500

\* The flow has ended, by return or by exception: its locals are gone and
\* the front door answers.
handle_build_request_return(t) ==
  /\ pc[t] \in {"returned", "raised"}
  /\ resp' = [resp EXCEPT ![t] = FrontDoorStatus(pc[t])]
  /\ loc' = [loc EXCEPT ![t] = NoLoc]
  /\ log' = [log EXCEPT ![t] = <<>>]
  /\ Goto(t, "done")
  /\ UNCHANGED <<req, repos, seq, served, env>>

\* The answer is sent and the execution context is free again.
finish(t) ==
  /\ pc[t] = "done"
  /\ req' = [req EXCEPT ![t] = NoRequest]
  /\ resp' = [resp EXCEPT ![t] = 0]
  /\ Goto(t, "idle")
  /\ UNCHANGED <<loc, log, repos, seq, served, env>>

Next ==
  \E t \in Workers :
    \/ receive(t)
    \/ handle_build_request(t)
    \/ process_attachments(t)
    \/ generate_code(t)
    \/ generate_readme(t)
    \/ create_github_repo(t)
    \/ get_index(t)
    \/ get_readme(t)
    \/ revise_code(t)
    \/ revise_readme(t)
    \/ push(t)
    \/ pages_post(t)
    \/ pages_get(t)
    \/ sleep30(t)
    \/ notify_post(t)
    \/ notify_sleep(t)
    \/ handle_build_request_return(t)
    \/ finish(t)

Spec == Init /\ [][Next]_vars

\* Every call returns and every execution context keeps running: each
\* step of a flow that is enabled is eventually taken.  The arrival of
\* requests is not forced.
step(t) ==
  \/ handle_build_request(t) \/ process_attachments(t)
  \/ generate_code(t) \/ generate_readme(t) \/ create_github_repo(t)
  \/ get_index(t) \/ get_readme(t) \/ revise_code(t) \/ revise_readme(t)
  \/ push(t) \/ pages_post(t) \/ pages_get(t) \/ sleep30(t)
  \/ notify_post(t) \/ notify_sleep(t) \/ handle_build_request_return(t)
  \/ finish(t)

FairSpec == Spec /\ \A t \in Workers : WF_vars(step(t))

\* The server with every input the code can meet: requests that lack a
\* required field, attachments without a name, generation responses
\* without text.
AnyInit ==
  /\ req = [t \in Workers |-> NoRequest]
  /\ pc = [t \in Workers |-> "idle"]
  /\ resp = [t \in Workers |-> 0]
  /\ loc = [t \in Workers |-> NoLoc]
  /\ log = [t \in Workers |-> <<>>]
  /\ repos = [n \in Names |-> NoRepo]
  /\ seq = [n \in Names |-> 0]
  /\ served = 0
  /\ env = "any"

AnySpec == AnyInit /\ [][Next]_vars

\* The server with tasks for two repository names, never two tasks for one
\* name at a time.
NamesInit ==
  /\ req = [t \in Workers |-> NoRequest]
  /\ pc = [t \in Workers |-> "idle"]
  /\ resp = [t \in Workers |-> 0]
  /\ loc = [t \in Workers |-> NoLoc]
  /\ log = [t \in Workers |-> <<>>]
  /\ repos = [n \in AllNames |-> NoRepo]
  /\ seq = [n \in AllNames |-> 0]
  /\ served = 0
  /\ env = "names"

NamesSpec == NamesInit /\ [][Next]_vars

\* The repository an earlier build (of a task with nonce 0) published:
\* three files, committed in the order of its batch, and hosting enabled.
BuiltFile(k) == [sha |-> BlobSha(k), content |-> [by |-> 0, base |-> NoSha, empty |-> FALSE]]
BuiltRepo(n) ==
  [exists |-> TRUE, html_url |-> BackendRepoUrl(n),
   files |-> [p \in Paths |->
                IF p = "index.html" THEN BuiltFile(1)
                ELSE IF p = "README.md" THEN BuiltFile(2) ELSE BuiltFile(3)],
   pages |-> TRUE, pages_url |-> BackendPagesUrl(n)]

\* The server started when the repository of the name is already built.
BuiltInit ==
  /\ req = [t \in Workers |-> NoRequest]
  /\ pc = [t \in Workers |-> "idle"]
  /\ resp = [t \in Workers |-> 0]
  /\ loc = [t \in Workers |-> NoLoc]
  /\ log = [t \in Workers |-> <<>>]
  /\ repos = [n \in Names |-> BuiltRepo(n)]
  /\ seq = [n \in Names |-> 3]
  /\ served = 0
  /\ env = "valid"

BuiltSpec == BuiltInit /\ [][Next]_vars

\* ---------------------------------------------------------------- queries
IsPost(e) == e.op = "notify_post"
IsSleep(e) == e.op = "sleep"
IsPut(e) == e.op = "put"
IsFetch(e) == e.op = "fetch"
IsBatch(e) == e.op = "publish_batch"

\* Number of events of the log of t with this op and path.
Count(t, op, path) ==
  Cardinality({i \in 1..Len(log[t]) : log[t][i].op = op /\ log[t][i].path = path})

Posts(t) == Len(SelectSeq(log[t], IsPost))

\* The flow of t is running or has just ended (its locals are still there).
Active(t) == pc[t] \notin {"idle", "received"} /\ req[t].front = "ok"

\* Sum of the first k delays.
RECURSIVE DelaySum(_)
DelaySum(k) == IF k = 0 THEN 0 ELSE Delays[k] + DelaySum(k - 1)

\* C1: notify_evaluation_api makes at most 4 POST attempts and stops at the
\* first one answered 200; a non-200 answer, a transport failure and a
\* timeout each use up one attempt; it has slept 1, 2 and 4 before attempts
\* 2, 3 and 4 and never sleeps after attempt 4: success on attempt k comes
\* after a total sleep of the first k-1 delays, and 4 failures raise after
\* a total sleep of exactly 7.
C1_NotifyRetry ==
  \A t \in Workers : Posts(t) > 0 =>
    LET k == Posts(t)
        sleeps == SelectSeq(log[t], IsSleep)
    IN
    /\ k <= 4
    \* the sleeps so far are 1, 2, 4, in this order, one after each failure
    /\ \A j \in 1..Len(sleeps) : sleeps[j].res = <<1, 2, 4>>[j]
    /\ loc[t].slept = DelaySum(Len(sleeps))
    \* the POSTs and the sleeps alternate: attempt j+1 follows sleep j
    /\ pc[t] = "notify_post" => Len(sleeps) = k /\ loc[t].last_status # OK
    /\ pc[t] = "notify_sleep" =>
          Len(sleeps) = k - 1 /\ k <= 3 /\ loc[t].last_status # OK
    \* success on attempt k: the first 200, after the first k-1 delays
    /\ pc[t] = "returned" =>
          loc[t].last_status = OK /\ loc[t].slept = DelaySum(k - 1)
    \* the raise: 4 failed attempts, 1+2+4 slept, no sleep after the 4th
    /\ pc[t] = "raised" =>
          k = 4 /\ loc[t].last_status # OK /\ loc[t].slept = 7
             /\ log[t][Len(log[t])].op = "notify_post"

\* Four failed attempts, the last one timed out, and the raise.
C1_Witness ==
  \E t \in Workers :
    /\ pc[t] = "raised" /\ Posts(t) = 4 /\ loc[t].slept = 7
    /\ loc[t].last_status = TimedOut

\* The step of the build flow an event belongs to: 1 decode attachments,
\* 2 generate markup, 3 generate docs, 4 ensure repository, 5 publish
\* batch, 6 enable hosting, 7 propagation wait, 8 notify.
BuildStage(e) ==
  CASE e.op = "decode" -> 1
    [] e.op = "gen_markup" -> 2
    [] e.op = "gen_docs" -> 3
    [] e.op = "create_repo" -> 4
    [] e.op \in {"publish_batch", "put"} -> 5
    [] e.op \in {"pages_post", "pages_get"} -> 6
    [] e.op = "wait" -> 7
    [] e.op \in {"notify_post", "sleep"} -> 8

\* The events 1..i of the log of t complete the step of event i with success.
StageCompleted(t, i) ==
  LET e == log[t][i]
      puts == {j \in 1..i : log[t][j].op = "put"}
  IN
  CASE e.op = "decode" -> e.res = OK
    [] e.op \in {"gen_markup", "gen_docs"} -> e.res = OK
    [] e.op = "create_repo" -> e.res \in {CREATED, UNPROCESSABLE}
    [] e.op = "put" ->
         /\ Cardinality(puts) = 3
         /\ \A j \in puts : log[t][j].res \in {OK, CREATED}
    [] e.op = "pages_post" -> e.res = CREATED
    [] e.op = "pages_get" -> e.res = OK
    [] e.op = "wait" -> TRUE
    [] OTHER -> FALSE

\* C2: in every run of the build flow the steps happen strictly in the
\* order decode attachments, generate markup, generate docs, ensure
\* repository, publish batch, enable hosting, propagation wait, notify; a
\* step starts only after every earlier step completed successfully.
C2_BuildOrder ==
  \A t \in Workers : (Active(t) /\ req[t].round = 1) =>
    /\ Len(log[t]) > 0 => BuildStage(log[t][1]) = 1
    /\ \A i \in 1..(Len(log[t]) - 1) :
         LET a == BuildStage(log[t][i])
             b == BuildStage(log[t][i + 1])
         IN \/ b = a /\ a \in {5, 6, 8}
            \/ b = a + 1 /\ StageCompleted(t, i)
    \* the statement the task is at is the one the log has led to
    /\ pc[t] = "returned" =>
         Len(log[t]) > 0 /\ BuildStage(log[t][Len(log[t])]) = 8

\* A build that went through all eight steps and returned.
C2_Witness ==
  \E t \in Workers :
    /\ req[t].round = 1 /\ pc[t] = "returned"
    /\ {BuildStage(log[t][i]) : i \in 1..Len(log[t])} = 1..8

\* The file writes of the task in t, in the order it issued them.
Puts(t) == SelectSeq(log[t], IsPut)
Fetches(t) == SelectSeq(log[t], IsFetch)
Batches(t) == SelectSeq(log[t], IsBatch)

\* The publish batch of t went through: the flow is past the push.
Published(t) ==
  pc[t] \in {"pages_post", "pages_get", "sleep30", "notify_post",
             "notify_sleep", "returned"}

\* C3: in every run of the revise flow, fetch_file is invoked for
\* index.html and for README.md before any file write of the task, and the
\* publish batch writes exactly index.html and README.md, each carrying the
\* version token this task's own fetch of that same file returned.
C3_ReviseTokens ==
  \A t \in Workers : (Active(t) /\ req[t].round = 2) =>
    /\ \A i \in 1..Len(log[t]) : log[t][i].op \in {"put", "publish_batch"} =>
         \A p \in {"index.html", "README.md"} :
           \E j \in 1..(i - 1) :
             /\ log[t][j].op = "fetch" /\ log[t][j].path = p
             /\ log[t][j].res = OK /\ log[t][j].ret # NoSha
    /\ \A i \in 1..Len(Fetches(t)) :
         Fetches(t)[i].path = <<"index.html", "README.md">>[i]
    /\ \A i \in 1..Len(Puts(t)) :
         LET w == Puts(t)[i] IN
         /\ i <= 2 /\ w.path = <<"index.html", "README.md">>[i]
         /\ w.sha # NoSha
         /\ \E j \in 1..Len(Fetches(t)) :
              Fetches(t)[j].path = w.path /\ Fetches(t)[j].ret = w.sha
    /\ Published(t) => Len(Puts(t)) = 2

\* A revise task whose two writes went through, with two different tokens.
C3_Witness ==
  \E t \in Workers :
    /\ req[t].round = 2 /\ pc[t] = "pages_post" /\ Len(Puts(t)) = 2
    /\ Puts(t)[1].sha # Puts(t)[2].sha

\* C4: for every build task, publish_batch is invoked exactly once, with
\* exactly the three files index.html, README.md and LICENSE, and none of
\* the three writes carries a version token.
C4_BuildBatch ==
  \A t \in Workers : (Active(t) /\ req[t].round = 1) =>
    /\ Len(Batches(t)) <= 1
    /\ \A i \in 1..Len(Batches(t)) : Batches(t)[i].res = 3
    /\ Len(Puts(t)) > 0 => Len(Batches(t)) = 1
    /\ \A i \in 1..Len(Puts(t)) :
         /\ i <= 3
         /\ Puts(t)[i].path = <<"index.html", "README.md", "LICENSE">>[i]
         /\ Puts(t)[i].sha = NoSha
    /\ Published(t) => Len(Batches(t)) = 1 /\ Len(Puts(t)) = 3

\* A build task whose batch of three writes went through.
C4_Witness ==
  \E t \in Workers :
    /\ req[t].round = 1 /\ pc[t] = "pages_post" /\ Len(Puts(t)) = 3
    /\ \A p \in Paths : repos[req[t].task].files[p].content.by = req[t].id

\* What holds of the batch of t in every state.
C5_State ==
  \A t \in Workers : (Active(t) /\ Len(Batches(t)) > 0) =>
    LET files == FilesToPush(t)
        k == Len(Puts(t))
        ok(w) == w.res \in {OK, CREATED}
    IN
    \* the writes are issued in the order the caller supplied
    /\ k <= Len(files)
    /\ \A i \in 1..k : Puts(t)[i].path = files[i].path
    \* a write is attempted only after every earlier one succeeded
    /\ \A i \in 1..(k - 1) : ok(Puts(t)[i])
    \* a failed write raises at once and returns no token
    /\ (k > 0 /\ ~ok(Puts(t)[k])) =>
         /\ pc[t] = "raised"
         /\ log[t][Len(log[t])] = Puts(t)[k]
         /\ loc[t].commit_sha = NoSha
    \* all writes succeeded: the token is the last write's commit
    /\ Published(t) =>
         /\ k = Len(files) /\ ok(Puts(t)[k])
         /\ loc[t].commit_sha = Puts(t)[k].ret
         /\ loc[t].commit_sha # NoSha

\* What holds of every step: a step that ends in a failed write, and every
\* step of a task after its batch failed, leaves the repositories as they
\* are (nothing is rolled back).
C5_Step ==
  \A t \in Workers :
    /\ (log'[t] # log[t] /\ Len(Puts(t)') > 0
          /\ log'[t][Len(log'[t])].op = "put"
          /\ log'[t][Len(log'[t])].res \notin {OK, CREATED})
       => (repos' = repos /\ seq' = seq /\ pc'[t] = "raised")
    /\ (pc[t] \in {"raised", "done"} /\ pc'[t] # pc[t]) => repos' = repos

\* C5: publish_batch writes the files in the order supplied by the caller;
\* when the write of the i-th file fails it raises at once, files i+1.. are
\* never attempted, files 1..i-1 remain committed (no rollback) and no
\* version token is returned; when all writes succeed the returned token is
\* the commit identifier returned by the last file's write.
C5_PublishBatch == [][C5_State' /\ C5_Step]_vars

\* The second write of a batch failed: the flow raised, the first file is
\* still in the repository, the third was never attempted.
C5_Witness ==
  \E t \in Workers :
    /\ pc[t] = "raised" /\ Len(Puts(t)) = 2
    /\ Puts(t)[2].res \notin {OK, CREATED}
    /\ repos[req[t].task].files["index.html"].content.by = req[t].id
    /\ repos[req[t].task].files["README.md"].sha = NoSha

\* C6: create_github_repo is idempotent: a call the backend answers with
\* created or with already-exists does not raise, the repository exists
\* afterwards, and the call answered already-exists returns the same URL
\* as the call that created the repository.
C6_EnsureRepositoryIdempotent ==
  \A t \in Workers : Active(t) =>
    \A i \in 1..Len(log[t]) :
      (log[t][i].op = "create_repo"
         /\ log[t][i].res \in {CREATED, UNPROCESSABLE}) =>
        LET n == RepoName(t) IN
        /\ i = Len(log[t]) => pc[t] = "push"
        /\ repos[n].exists
        /\ loc[t].repo_url = repos[n].html_url

\* A second build for a name whose repository exists: the call was answered
\* already-exists and the flow went on to the push.
C6_Witness ==
  \E t \in Workers :
    /\ pc[t] = "push" /\ Len(log[t]) > 0
    /\ log[t][Len(log[t])].op = "create_repo"
    /\ log[t][Len(log[t])].res = UNPROCESSABLE
    /\ req[t].id = 2

\* C7: enable_github_pages is idempotent: a call the backend answers with
\* already-enabled reads the hosting record, does not raise when the read
\* is answered, leaves hosting enabled and returns the same URL as the call
\* that enabled hosting.
C7_EnableHostingIdempotent ==
  \A t \in Workers : Active(t) =>
    \A i \in 1..Len(log[t]) :
      (log[t][i].op = "pages_post" /\ log[t][i].res = CONFLICT) =>
        LET n == RepoName(t) IN
        /\ repos[n].pages
        /\ i = Len(log[t]) => pc[t] = "pages_get"
        /\ i < Len(log[t]) =>
             /\ log[t][i + 1].op = "pages_get"
             /\ log[t][i + 1].res = OK =>
                  /\ i + 1 = Len(log[t]) => pc[t] = "sleep30"
                  /\ loc[t].pages_url = repos[n].pages_url
                  /\ loc[t].pages_url = BackendPagesUrl(n)

\* A second enabling: answered already-enabled, the record read, the URL
\* returned.
C7_Witness ==
  \E t \in Workers :
    /\ pc[t] = "sleep30"
    /\ \E i \in 1..Len(log[t]) :
         log[t][i].op = "pages_post" /\ log[t][i].res = CONFLICT

\* The answer ended the call with an error (the cases the code is said to
\* let through: already-exists, already-enabled).
ErrorAnswer(e) ==
  CASE e.op \in {"decode", "gen_markup", "gen_docs", "fetch", "pages_get"} -> e.res # OK
    [] e.op = "create_repo" -> e.res \notin {CREATED, UNPROCESSABLE}
    [] e.op = "put" -> e.res \notin {OK, CREATED}
    [] e.op = "pages_post" -> e.res \notin {CREATED, CONFLICT}
    [] OTHER -> FALSE

\* C8: component errors are swallowed only for repository-already-exists,
\* hosting-already-enabled and a per-attachment decode failure; every other
\* error of generation, repository creation, fetch, write or hosting
\* enablement aborts the task, no later step runs, and the front door
\* answers 500; in particular an enable-hosting request that fails for a
\* reason other than already-enabled fails the task.
C8_ErrorsAbort ==
  \A t \in Workers : Active(t) =>
    \A i \in 1..Len(log[t]) : ErrorAnswer(log[t][i]) =>
      \* nothing but the read of the hosting record follows the error
      /\ \A j \in (i + 1)..Len(log[t]) :
           log[t][i].op = "pages_post" /\ log[t][j].op = "pages_get"
      /\ pc[t] \in {"pages_get", "raised"}

\* Number of events of the log of t with this op, whatever the path.
CountOp(t, op) == Cardinality({i \in 1..Len(log[t]) : log[t][i].op = op})

\* C9: within one task run each generation call, each file fetch, the
\* repository creation and each file write is issued at most once, whatever
\* its outcome; the notification POST is the only remote call issued more
\* than once (up to 4 times).
C9_NoRetryButNotify ==
  \A t \in Workers : Active(t) =>
    /\ \A p \in Paths :
         /\ Count(t, "gen_markup", p) <= 1 /\ Count(t, "gen_docs", p) <= 1
         /\ Count(t, "fetch", p) <= 1 /\ Count(t, "put", p) <= 1
    /\ CountOp(t, "gen_markup") <= 1 /\ CountOp(t, "gen_docs") <= 1
    /\ CountOp(t, "create_repo") <= 1 /\ CountOp(t, "publish_batch") <= 1
    /\ CountOp(t, "pages_post") <= 1 /\ CountOp(t, "pages_get") <= 1
    /\ CountOp(t, "notify_post") <= 4

\* A run that issued the notification POST four times and every other call
\* of the build flow once.
C9_Witness ==
  \E t \in Workers :
    /\ CountOp(t, "notify_post") = 4 /\ req[t].round = 1
    /\ CountOp(t, "gen_markup") = 1 /\ CountOp(t, "gen_docs") = 1
    /\ CountOp(t, "create_repo") = 1 /\ CountOp(t, "put") = 3

\* Notified: some notification attempt of the run was answered 200.
Notified(t) == Posts(t) \in 1..4 /\ loc[t].last_status = OK

\* C10: assuming every remote call returns, every task run ends in exactly
\* one of Notified (the flow returned) or Failed (it raised), and the front
\* door answers 200 if and only if the run reached Notified; exhausting the
\* 4 attempts raises, and the front door answers 500.
C10_Terminates ==
  \* the requests are finitely many: every run ends if and only if, from
  \* some point on, no execution context is serving one
  /\ <>[](\A t \in Workers : pc[t] = "idle")
  \* a run ends by the return (Notified) or by the raise (Failed)
  /\ [][\A t \in Workers :
          /\ pc'[t] = "returned" => Notified(t)'
          /\ pc'[t] = "raised" => ~Notified(t)'
          /\ (pc'[t] = "done" /\ pc[t] # "done" /\ req[t].front = "ok") =>
               /\ pc[t] \in {"returned", "raised"}
               /\ resp'[t] \in {200, 500}
               /\ resp'[t] = 200 <=> Notified(t)
               /\ (Posts(t) = 4 /\ loc[t].last_status # OK) => resp'[t] = 500]_vars

\* A run that exhausted the four attempts, about to be answered 500.
C10_Witness ==
  \E t \in Workers :
    /\ pc[t] = "raised" /\ Posts(t) = 4 /\ loc[t].last_status # OK
    /\ ENABLED (handle_build_request_return(t) /\ resp'[t] = 500)

\* The call of event e raised: the flow left at it.
CallFailed(e) ==
  CASE e.op \in {"decode", "gen_markup", "gen_docs", "fetch", "pages_get"} -> e.res # OK
    [] e.op = "create_repo" -> e.res \notin {CREATED, UNPROCESSABLE}
    [] e.op = "put" -> e.res \notin {OK, CREATED}
    [] e.op = "pages_post" -> e.res = NoResponse
    [] OTHER -> FALSE

\* What holds of a task and its repository in every state: after a call
\* before the notification raised, nothing else is issued; what the task
\* wrote, created and enabled is still there.
C11_State ==
  \A t \in Workers : Active(t) =>
    LET n == RepoName(t) IN
    /\ \A i \in 1..Len(log[t]) : CallFailed(log[t][i]) =>
         /\ i = Len(log[t]) /\ pc[t] = "raised"
         /\ Posts(t) = 0
    /\ \A i \in 1..Len(log[t]) :
         LET e == log[t][i] IN
         /\ (e.op = "put" /\ e.res \in {OK, CREATED}) =>
              \E k \in 1..seq[n] :
                /\ e.ret = CommitSha(k)
                \* the file holds this write, or a later write of another task
                /\ repos[n].files[e.path].sha >= BlobSha(k)
                /\ repos[n].files[e.path].sha = BlobSha(k) =>
                     repos[n].files[e.path].content.by = req[t].id
         /\ (e.op = "create_repo" /\ e.res = CREATED) => repos[n].exists
         /\ (e.op = "pages_post" /\ e.res = CREATED) => repos[n].pages

\* What holds of every step: the step of a task that has failed changes no
\* repository; no step deletes a repository or a file or disables hosting.
C11_Step ==
  /\ \A t \in Workers :
       (pc[t] = "raised" /\ pc'[t] # pc[t]) =>
          /\ pc'[t] = "done" /\ resp'[t] = 500
          /\ repos' = repos /\ seq' = seq
  /\ \A n \in DOMAIN repos :
       /\ repos[n].exists => repos'[n].exists
       /\ repos[n].pages => repos'[n].pages
       /\ \A p \in Paths : repos[n].files[p].sha # NoSha =>
                               repos'[n].files[p].sha # NoSha

\* C11: a task that fails at a step before the notification step sends no
\* notification POST and performs no compensating action: every file it
\* wrote stays in the repository with the content it wrote (until another
\* task's later write replaces it), and the repository and the hosting
\* setting it created stay in place.
C11_NoCompensation == [][C11_State' /\ C11_Step]_vars

\* Enabling hosting failed after the batch of a build was published: the
\* repository holds the three files of the task, no POST was attempted.
C11_Witness ==
  \E t \in Workers :
    /\ req[t].round = 1 /\ pc[t] = "raised" /\ Posts(t) = 0
    /\ Len(Puts(t)) = 3
    /\ log[t][Len(log[t])].op \in {"pages_post", "pages_get"}
    /\ \A p \in Paths : repos[RepoName(t)].files[p].content.by = req[t].id
    /\ repos[RepoName(t)].exists /\ ~repos[RepoName(t)].pages

\* The fields of the outbound notification body.
BodyFields == {"email", "task", "round", "nonce", "repo_url", "commit_sha", "pages_url"}

IsHosting(e) == e.op \in {"pages_post", "pages_get"}

\* C12: every notification body delivered for a task consists of exactly
\* the fields email, task, round, nonce, repo_url, commit_sha, pages_url
\* (the callback URL is not among them); email, task and nonce are the
\* request's, round is 1 when the build flow ran and 2 when the revise flow
\* ran, commit_sha is the commit the last write of the task's own batch
\* returned, pages_url is the URL the task's own enable-hosting call
\* returned; all attempts of a task carry the same body.
C12_NotificationBody ==
  \A t \in Workers : Active(t) =>
    \A i \in 1..Len(log[t]) : IsPost(log[t][i]) =>
      LET b == log[t][i].body
          puts == Puts(t)
          hosting == SelectSeq(log[t], IsHosting)
      IN
      /\ DOMAIN b = BodyFields
      /\ "evaluation_url" \notin DOMAIN b
      /\ b.email = req[t].email /\ b.task = req[t].task /\ b.nonce = req[t].id
      \* the flow that ran: the build flow creates the repository, the
      \* revise flow fetches the files
      /\ b.round = 1 <=> CountOp(t, "create_repo") = 1
      /\ b.round = 2 <=> CountOp(t, "fetch") = 2
      /\ b.round \in {1, 2}
      /\ Len(puts) = Len(FilesToPush(t))
      /\ puts[Len(puts)].res \in {OK, CREATED}
      /\ b.commit_sha = puts[Len(puts)].ret
      /\ Len(hosting) > 0
      /\ hosting[Len(hosting)].res \in {OK, CREATED}
      /\ b.pages_url = hosting[Len(hosting)].ret
      /\ b = SelectSeq(log[t], IsPost)[1].body

\* A revise task whose four attempts were made, while a task in the other
\* context has its own body under way.
C12_Witness ==
  \E t, u \in Workers :
    /\ t # u /\ Posts(t) = 4 /\ Posts(u) >= 1
    /\ req[t].round = 2 /\ req[u].round = 1
    /\ SelectSeq(log[t], IsPost)[4].body.round = 2
    /\ SelectSeq(log[t], IsPost)[4].body.commit_sha
         # SelectSeq(log[u], IsPost)[1].body.commit_sha

\* C13: for every ordered sequence of attachments process_attachments does
\* not raise; its output holds one block per attachment, in input order,
\* with a blank line between consecutive blocks; a well-formed attachment
\* yields its decoded text between markers that name it, an attachment that
\* cannot be decoded yields a decode-failure marker that names it, and the
\* attachments after it are still processed; an empty or absent list yields
\* the empty string.
C13_DecodeNeverRaises ==
  [][\A t \in Workers :
       (pc[t] = "process_attachments" /\ pc'[t] # pc[t]) =>
         LET a == loc[t].attachments
             out == loc'[t].attachments_content
             k == IF a.given THEN Len(a.items) ELSE 0
         IN
         /\ pc'[t] # "raised"
         /\ k = 0 => out = <<>>
         /\ k > 0 =>
              /\ Len(out) = 2 * k - 1
              /\ \A j \in 1..k :
                   /\ out[2 * j - 1].name = j
                   /\ out[2 * j - 1].block =
                        IF a.items[j] = "good" THEN "decoded" ELSE "failed"
              /\ \A j \in 1..(k - 1) : out[2 * j] = BlankLine]_vars

\* C14: every generation operation returns non-empty text or raises,
\* whatever the backend responds (a fenced html block with a body, a fenced
\* html block whose body is empty or blank, no fenced block, an empty
\* response); empty text is never returned, and so never published as
\* index.html or README.md.
C14_NeverEmptyText ==
  /\ \A t \in Workers : Active(t) =>
       /\ loc[t].html.by # 0 => ~loc[t].html.empty
       /\ loc[t].readme.by # 0 => ~loc[t].readme.empty
  /\ \A n \in DOMAIN repos : \A p \in {"index.html", "README.md"} :
       repos[n].files[p].sha # NoSha => ~repos[n].files[p].content.empty

\* The request in t is one the front door is to reject: no JSON body, a
\* wrong or missing secret, or a required field missing.
Rejected(t) ==
  pc[t] # "idle" /\ (req[t].front # "ok" \/ req[t].missing # "none")

\* C15: a request the front door rejects performs no pipeline step: a
\* wrong or missing secret is answered 401, malformed input (no JSON, or a
\* task description that lacks task, brief, email, nonce or evaluation_url)
\* is answered 400 and not 500, and no generation call, repository
\* creation, file fetch or write, hosting change or notification has
\* happened for it.
C15_RejectedDoesNothing ==
  \A t \in Workers : Rejected(t) =>
    /\ log[t] = <<>>
    /\ pc[t] = "done" =>
         resp[t] = IF req[t].front \in {"no_secret", "bad_secret"} THEN 401 ELSE 400

\* The step is one of context t.
StepOf(t) == pc'[t] # pc[t] \/ loc'[t] # loc[t] \/ log'[t] # log[t]

\* What a task can see and has done: its request, its position, its locals,
\* the calls it issued and the answers they got, its answer, and the
\* repository of its name with its commits.
View(t) ==
  <<req[t], pc[t], loc[t], log[t], resp[t], repos[req[t].task], seq[req[t].task]>>

\* C16: tasks for different repository names are independent under every
\* interleaving: a step of a task for repository A leaves the files, the
\* version tokens and the hosting flag of every other repository unchanged,
\* and a step of another task changes nothing a task for A can see, does
\* no step of it and neither enables nor disables its next step: its run
\* (terminal state, files written, notification body) is the run it has
\* with no other task around.
C16_Independent ==
  [][\A t \in Workers :
       /\ (StepOf(t) /\ pc[t] # "idle") =>
            \A m \in DOMAIN repos \ {req[t].task} :
              repos'[m] = repos[m] /\ seq'[m] = seq[m]
       /\ (~StepOf(t) /\ pc[t] # "idle") =>
            /\ View(t)' = View(t)
            /\ (ENABLED step(t))' <=> ENABLED step(t)]_vars

\* Two tasks for different names, both with their batch published and
\* their notification under way.
C16_Witness ==
  \E t, u \in Workers :
    /\ req[t].task = "demo-1" /\ req[u].task = "demo-2"
    /\ Len(Puts(t)) = 3 /\ Len(Puts(u)) = 3
    /\ Posts(t) >= 1 /\ Posts(u) >= 1
    /\ repos["demo-1"].files["index.html"].content.by = req[t].id
    /\ repos["demo-2"].files["index.html"].content.by = req[u].id

\* The write at position i of the log of t was rejected for its version
\* token (stale, or missing for a file that exists) after an earlier write
\* of the same batch was committed.
RejectedAfterCommit(t, i) ==
  /\ log[t][i].op = "put"
  /\ log[t][i].res \in {CONFLICT, UNPROCESSABLE}
  /\ \E j \in 1..(i - 1) : log[t][j].op = "put" /\ log[t][j].res \in {OK, CREATED}

\* C17: two tasks on one repository name run with no mutual exclusion, and
\* a task's write can be rejected for its token after the task committed an
\* earlier file of its batch.  Whenever that happens the rejected file was
\* written by the other task after this task fetched it (the token the
\* task sent is no longer the file's), the task fails there, and the file
\* it committed stays: the repository holds the failed task's index.html
\* next to another task's README.md, a state no single batch produced.
C17_MixedState ==
  \A t \in Workers : Active(t) =>
    \A i \in 1..Len(log[t]) : RejectedAfterCommit(t, i) =>
      LET n == req[t].task
          e == log[t][i]
          mine == {p \in Paths : repos[n].files[p].content.by = req[t].id}
      IN
      /\ i = Len(log[t]) /\ pc[t] \in {"raised", "done"}
      /\ pc[t] = "done" => resp[t] = 500
      /\ e.path = "README.md" /\ e.sha # NoSha
      /\ repos[n].files[e.path].sha > e.sha
      /\ repos[n].files[e.path].content.by \notin {0, req[t].id}
      /\ mine \subseteq {"index.html"}
      /\ mine = {} =>
           \E k \in 1..seq[n] :
             /\ log[t][i - 1].ret = CommitSha(k)
             /\ repos[n].files["index.html"].sha > BlobSha(k)

\* w1 failed at README.md with a conflict after its index.html went in; the
\* repository holds the index.html of w1 and the README.md of w2, whose own
\* batch went through before.
C17_Witness ==
  /\ pc["w1"] = "raised" /\ Published("w2")
  /\ req["w1"].task = req["w2"].task
  /\ req["w1"].round = 2 /\ req["w2"].round = 2
  /\ Len(Puts("w1")) = 2
  /\ Puts("w1")[1].path = "index.html" /\ Puts("w1")[1].res = OK
  /\ Puts("w1")[2].path = "README.md" /\ Puts("w1")[2].res = CONFLICT
  /\ repos[req["w1"].task].files["index.html"].content.by = req["w1"].id
  /\ repos[req["w1"].task].files["README.md"].content.by = req["w2"].id

\* Context t, serving a revise task, issued a write in this step.
ReviseWrote(t) ==
  /\ Active(t) /\ req[t].round = 2
  /\ Len(log'[t]) > Len(log[t])
  /\ log'[t][Len(log'[t])].op = "put"

\* C18: no lost update between revise tasks on one repository: a write of
\* index.html or README.md is applied only if the token it carries is the
\* file's version token at that moment, and then the stored content was
\* revised from the version it replaces; a write with a stale token is
\* answered with a conflict (or not answered), changes nothing, fails its
\* task, and no write follows it: no retry with a fresh or absent token.
C18_NoLostUpdate ==
  [][\A t \in Workers :
       /\ ReviseWrote(t) =>
            LET e == log'[t][Len(log'[t])]
                n == req[t].task
                cur == repos[n].files[e.path]
                new == repos'[n].files[e.path]
            IN
            /\ e.path \in {"index.html", "README.md"}
            /\ e.res = OK <=> new # cur
            /\ e.res = OK =>
                 /\ e.sha = cur.sha /\ e.sha # NoSha
                 /\ new.sha # cur.sha
                 /\ new.content.by = req[t].id
                 /\ new.content.base = cur.sha
            /\ e.sha # cur.sha => e.res \in {CONFLICT, SERVER_ERROR, NoResponse}
            /\ e.res # OK => repos' = repos /\ pc'[t] = "raised"
       /\ (Active(t) /\ \E i \in 1..Len(log[t]) :
                          log[t][i].op = "put" /\ log[t][i].res # OK /\ req[t].round = 2) =>
            /\ log'[t] \in {log[t], <<>>}
            /\ repos'[req[t].task].files = repos[req[t].task].files \/ ~StepOf(t)]_vars

\* The revise task of w1 sent the token of the version it fetched after w2
\* had replaced index.html: conflict, w1 failed, the file holds the version
\* w2 revised from the built one.
C18_Witness ==
  /\ pc["w1"] = "raised" /\ req["w1"].round = 2 /\ req["w2"].round = 2
  /\ Len(Puts("w1")) = 1
  /\ Puts("w1")[1].path = "index.html" /\ Puts("w1")[1].res = CONFLICT
  /\ Puts("w1")[1].sha = BuiltFile(1).sha
  /\ LET f == repos[req["w1"].task].files["index.html"] IN
       /\ f.content.by = req["w2"].id
       /\ f.content.base = BuiltFile(1).sha
       /\ f.sha # BuiltFile(1).sha

\* Context t, serving a build task, issued a call of this kind in this step.
BuildIssued(t, op) ==
  /\ Active(t) /\ req[t].round = 1
  /\ Len(log'[t]) > Len(log[t])
  /\ log'[t][Len(log'[t])].op = op

\* C19: a build never overwrites a file.  Against a repository that exists
\* its create call, answered already-exists, goes on to the batch; its
\* writes carry no token, so each one either creates a file that was
\* absent or, the file being there, is rejected, changes nothing and fails
\* the task with no notification sent.  No file once written goes away, so
\* of the build tasks for one name at most one gets past its batch, and
\* at most one reaches Notified.
C19_BuildNeverOverwrites ==
  [][/\ \A t \in Workers :
          LET e == log'[t][Len(log'[t])]
              n == req[t].task
          IN
          /\ (BuildIssued(t, "create_repo") /\ repos[n].exists) =>
               /\ e.res # CREATED /\ repos' = repos
               /\ e.res = UNPROCESSABLE => pc'[t] = "push"
          /\ BuildIssued(t, "put") =>
               LET cur == repos[n].files[e.path]
                   new == repos'[n].files[e.path]
               IN
               /\ e.sha = NoSha
               /\ e.res # OK
               /\ e.res = CREATED <=> new # cur
               /\ e.res = CREATED => cur = NoFile /\ new.content.by = req[t].id
               /\ cur # NoFile =>
                    /\ e.res \in {UNPROCESSABLE, SERVER_ERROR, NoResponse}
                    /\ repos' = repos
                    /\ pc'[t] = "raised"
                    /\ Posts(t)' = 0
     /\ \A n \in DOMAIN repos : \A p \in Paths :
          repos[n].files[p] # NoFile => repos'[n].files[p] # NoFile
     /\ \A t, u \in Workers :
          (/\ t # u /\ Active(t)' /\ Active(u)'
           /\ req'[t].round = 1 /\ req'[u].round = 1
           /\ req'[t].task = req'[u].task) => ~(Published(t)' /\ Published(u)')]_vars

\* A duplicate build: the create call of w2 was answered already-exists,
\* its write of index.html was rejected because w1 had created the file,
\* and w2 failed; the file is the one of w1, which goes on to notify.
C19_Witness ==
  /\ req["w1"].round = 1 /\ req["w2"].round = 1
  /\ req["w1"].task = req["w2"].task
  /\ pc["w2"] = "raised" /\ Posts("w2") = 0
  /\ \E i \in 1..Len(log["w2"]) :
       log["w2"][i].op = "create_repo" /\ log["w2"][i].res = UNPROCESSABLE
  /\ Len(Puts("w2")) = 1
  /\ Puts("w2")[1].path = "index.html" /\ Puts("w2")[1].res = UNPROCESSABLE
  /\ repos[req["w1"].task].files["index.html"].content.by = req["w1"].id
  /\ Published("w1") /\ Posts("w1") >= 1

\* Context t, serving a revise task, issued a call of this kind in this step.
ReviseIssued(t, op) ==
  /\ Active(t) /\ req[t].round = 2
  /\ Len(log'[t]) > Len(log[t])
  /\ log'[t][Len(log'[t])].op = op

\* The calls of the log of a revise task, in every state: a failed fetch is
\* the last call, only the decoding and fetches precede it; the flow never
\* calls the repository creation and never writes without a token.
C20_State ==
  \A t \in Workers : (Active(t) /\ req[t].round = 2) =>
    \A i \in 1..Len(log[t]) :
      LET e == log[t][i] IN
      /\ (e.op = "fetch" /\ e.res # OK) =>
           /\ i = Len(log[t]) /\ pc[t] = "raised"
           /\ \A j \in 1..Len(log[t]) : log[t][j].op \in {"decode", "fetch"}
      /\ e.op # "create_repo"
      /\ e.op = "put" => e.sha # NoSha /\ e.res # CREATED

\* C20: a revise task whose repository lacks index.html or README.md fails
\* at the fetch of that file: the fetch is answered not-found (never 200),
\* the flow raises there, before any revision is generated, so no
\* generation call, no write, no hosting call and no notification follows
\* and the task changes nothing in the repository; the revise flow never
\* creates the repository or a file that is missing.
C20_MissingFileFailsAtFetch ==
  [][/\ C20_State'
     /\ \A t \in Workers :
          LET n == req[t].task IN
          /\ ReviseIssued(t, "fetch") =>
               LET e == log'[t][Len(log'[t])] IN
               /\ repos' = repos
               /\ (~repos[n].exists \/ repos[n].files[e.path] = NoFile) =>
                    /\ e.res \in {NOT_FOUND, SERVER_ERROR, NoResponse}
                    /\ pc'[t] = "raised"
          /\ (req[t].round = 2 /\ pc[t] = "raised" /\ StepOf(t)) =>
               /\ pc'[t] = "done" /\ resp'[t] = 500
               /\ repos' = repos
          /\ (req[t].round = 2 /\ Active(t) /\ StepOf(t)) =>
               /\ repos'[n].exists = repos[n].exists
               /\ \A p \in Paths : repos[n].files[p] = NoFile =>
                                       repos'[n].files[p] = NoFile]_vars

\* A revise task that ran while the build of its repository was writing:
\* it fetched index.html, README.md was not there yet, and it failed at
\* that fetch having issued nothing but the decoding and the two fetches.
C20_Witness ==
  \E t \in Workers :
    /\ req[t].round = 2 /\ pc[t] = "raised"
    /\ Len(Fetches(t)) = 2
    /\ Fetches(t)[1].path = "index.html" /\ Fetches(t)[1].res = OK
    /\ Fetches(t)[2].path = "README.md" /\ Fetches(t)[2].res = NOT_FOUND
    /\ Len(Puts(t)) = 0 /\ Posts(t) = 0
    /\ repos[req[t].task].files["README.md"] = NoFile
====
